---- MODULE Spec2Model ----
(***************************************************************************)
(* The task service of src/main.rs: four HTTP handlers (get_tasks,         *)
(* add_task, update_task, delete_task) over one MongoDB collection.        *)
(* A request is handled in two steps: the synchronous part of the handler  *)
(* up to its only .await on the store (extractors, ObjectId::parse_str,    *)
(* the early 400 return), and the store round trip together with the       *)
(* mapping of its result to the response.  Requests in different slots     *)
(* interleave at the .await, as actix-web runs them.                       *)
(***************************************************************************)
EXTENDS Integers, Sequences, FiniteSets, TLC

\* ------------------------------------------------------------------ bounds

\* ObjectIds the store can ever hand out or hold in one run.
MaxOid == 3
\* Store round trips in one run (caps the logical clock).
MaxOps == 3

\* ------------------------------------------------------- ObjectId and hex

\* bson::oid::ObjectId is 12 bytes.
OidBytes == 12

Lower == <<"0","1","2","3","4","5","6","7","8","9","a","b","c","d","e","f">>
Upper == <<"0","1","2","3","4","5","6","7","8","9","A","B","C","D","E","F">>

IsHexChar(c) == \E i \in 1..16 : Lower[i] = c \/ Upper[i] = c
HexVal(c) == (CHOOSE i \in 1..16 : Lower[i] = c \/ Upper[i] = c) - 1

\* The two lower-case digits of each byte.
HexPair == [b \in 0..255 |-> <<Lower[(b \div 16) + 1], Lower[(b % 16) + 1]>>]

\* ObjectId::to_hex: two lower-case digits per byte.
to_hex(oid) == [i \in 1..(2 * Len(oid)) |-> HexPair[oid[(i + 1) \div 2]][2 - (i % 2)]]

\* hex::decode, as ObjectId::parse_str calls it: an odd length or a character
\* that is no hex digit (of either case) is an error.
hex_decode(s) ==
    IF Len(s) % 2 # 0 \/ (\E i \in 1..Len(s) : ~IsHexChar(s[i]))
    THEN [ok |-> FALSE, bytes |-> <<>>]
    ELSE [ok |-> TRUE,
          bytes |-> [i \in 1..(Len(s) \div 2) |->
                        16 * HexVal(s[2 * i - 1]) + HexVal(s[2 * i])]]

\* Mutant of parse_str: the check of the decoded length is missing.
parse_str_unchecked(s) ==
    LET d == hex_decode(s)
    IN  IF d.ok THEN [ok |-> TRUE, oid |-> d.bytes] ELSE [ok |-> FALSE, oid |-> <<>>]

\* ObjectId::parse_str: the decoded bytes must be exactly 12.
parse_str(s) ==
    LET d == hex_decode(s)
    IN  IF d.ok /\ Len(d.bytes) = OidBytes
        THEN [ok |-> TRUE, oid |-> d.bytes]
        ELSE [ok |-> FALSE, oid |-> <<>>]

\* The n-th ObjectId of the run (a fixed leading byte, a counter in the last).
OidOf(n) == [i \in 1..OidBytes |-> IF i = 1 THEN 101 ELSE IF i = OidBytes THEN 9 + n ELSE 0]

Oids == {OidOf(n) : n \in 1..MaxOid}

\* ------------------------------------------------------------- documents

\* A BSON value: an ObjectId, a string or an integer.
OidV(o) == [t |-> "oid", b |-> o, s |-> ""]
StrV(x) == [t |-> "str", b |-> <<>>, s |-> x]
IntV(x) == [t |-> "int", b |-> <<>>, s |-> x]

\* doc! { "_id": o, "title": t }
Doc(o, t) == ("_id" :> OidV(o)) @@ ("title" :> StrV(t))

\* Document::get_object_id(key).ok()
get_object_id(d, key) ==
    IF key \in DOMAIN d /\ d[key].t = "oid"
    THEN [some |-> TRUE, oid |-> d[key].b]
    ELSE [some |-> FALSE, oid |-> <<>>]

\* Mutant of get_str: any value under the key is taken for a string.
get_str_any(d, key) ==
    IF key \in DOMAIN d
    THEN [some |-> TRUE, str |-> d[key].s]
    ELSE [some |-> FALSE, str |-> ""]

\* Document::get_str(key).ok()
get_str(d, key) ==
    IF key \in DOMAIN d /\ d[key].t = "str"
    THEN [some |-> TRUE, str |-> d[key].s]
    ELSE [some |-> FALSE, str |-> ""]

\* The filter doc! { "_id": object_id } on one document.
Matches(d, o) == "_id" \in DOMAIN d /\ d["_id"] = OidV(o)

MatchSet(c, o) == {i \in 1..Len(c) : Matches(c[i], o)}
FirstMatch(c, o) == CHOOSE i \in MatchSet(c, o) : \A j \in MatchSet(c, o) : i <= j

\* { "$set": { key: v } } on one document: the field is set, the others kept.
SetField(d, key, v) == [x \in DOMAIN d \cup {key} |-> IF x = key THEN v ELSE d[x]]

\* ---------------------------------------------------------- the collection

\* insert_one: the driver gives the document a fresh ObjectId as its _id.
InsertOne(c, d, o) == Append(c, SetField(d, "_id", OidV(o)))

\* Mutant of UpdateOne: the matched document is replaced by { _id, title }.
UpdateOne_Replace(c, o, title) ==
    IF MatchSet(c, o) = {}
    THEN [coll |-> c, matched_count |-> 0]
    ELSE [coll |-> [i \in 1..Len(c) |->
                      IF i = FirstMatch(c, o) THEN Doc(o, title) ELSE c[i]],
          matched_count |-> 1]

\* Mutant of UpdateOne: an update that matches nothing inserts (upsert).
UpdateOne_Upsert(c, o, title) ==
    IF MatchSet(c, o) = {}
    THEN [coll |-> Append(c, Doc(o, title)), matched_count |-> 0]
    ELSE [coll |-> [i \in 1..Len(c) |->
                      IF i = FirstMatch(c, o)
                      THEN SetField(c[i], "title", StrV(title)) ELSE c[i]],
          matched_count |-> 1]

\* update_one(filter, { "$set": { "title": title } }): at most one document.
UpdateOne(c, o, title) ==
    IF MatchSet(c, o) = {}
    THEN [coll |-> c, matched_count |-> 0]
    ELSE [coll |-> [i \in 1..Len(c) |->
                      IF i = FirstMatch(c, o)
                      THEN SetField(c[i], "title", StrV(title)) ELSE c[i]],
          matched_count |-> 1]

\* Mutant of DeleteOne: the filter is empty, the first document is removed.
DeleteOne_NoFilter(c, o) ==
    IF c = <<>>
    THEN [coll |-> c, deleted_count |-> 0]
    ELSE [coll |-> Tail(c), deleted_count |-> 1]

\* delete_one(filter): at most one document.
DeleteOne(c, o) ==
    IF MatchSet(c, o) = {}
    THEN [coll |-> c, deleted_count |-> 0]
    ELSE [coll |-> [i \in 1..(Len(c) - 1) |->
                      IF i < FirstMatch(c, o) THEN c[i] ELSE c[i + 1]],
          deleted_count |-> 1]

\* ------------------------------------------------------------- responses

Response(status, kind, text, json) ==
    [status |-> status, kind |-> kind, text |-> text, json |-> json]

NoResponse == Response(0, "none", "", <<>>)
\* The handler panicked (an unwrap on Err): no response is produced.
Panicked == Response(0, "panic", "", <<>>)

\* serde_json::json!({ "_id": id.to_hex(), "title": title })
TaskJson(id, title) == ("_id" :> to_hex(id)) @@ ("title" :> title)

\* The loop of get_tasks over the documents the cursor yielded.
RECURSIVE ProjectTasks(_)
ProjectTasks(docs) ==
    IF docs = <<>> THEN <<>>
    ELSE LET d == Head(docs)
             id == get_object_id(d, "_id")
             title == get_str(d, "title")
         IN  (IF id.some /\ title.some
              THEN <<TaskJson(id.oid, title.str)>> ELSE <<>>)
             \o ProjectTasks(Tail(docs))

\* HttpResponse::Ok().json(tasks)
ListResponse(tasks) == Response(200, "json", "", tasks)

\* HttpResponse::BadRequest().body("Invalid ID")
InvalidId == Response(400, "text", "Invalid ID", <<>>)

\* web::Json<Task> could not be extracted: actix-web answers 400 with the
\* error's text and the handler does not run.
JsonError == Response(400, "text", "Json deserialize error", <<>>)

\* add_task: match insert_one(..).await { Ok(_) => 201, Err(_) => 500 }
AddResponse(ok) ==
    IF ok THEN Response(201, "empty", "", <<>>) ELSE Response(500, "empty", "", <<>>)

\* Mutant of UpdateResponse: matched_count is not looked at.
UpdateResponse_NoCount(ok, matched_count) ==
    IF ok THEN Response(200, "empty", "", <<>>) ELSE Response(500, "empty", "", <<>>)

\* update_task: match update_one(..).await
UpdateResponse(ok, matched_count) ==
    IF ok
    THEN IF matched_count > 0
         THEN Response(200, "empty", "", <<>>) ELSE Response(404, "empty", "", <<>>)
    ELSE Response(500, "empty", "", <<>>)

\* Mutant of DeleteResponse: deleted_count >= 0 in place of > 0.
DeleteResponse_OffByOne(ok, deleted_count) ==
    IF ok
    THEN IF deleted_count >= 0
         THEN Response(200, "empty", "", <<>>) ELSE Response(404, "empty", "", <<>>)
    ELSE Response(500, "empty", "", <<>>)

\* delete_task: match delete_one(..).await
DeleteResponse(ok, deleted_count) ==
    IF ok
    THEN IF deleted_count > 0
         THEN Response(200, "empty", "", <<>>) ELSE Response(404, "empty", "", <<>>)
    ELSE Response(500, "empty", "", <<>>)

\* --------------------------------------------------------------- requests

\* A JSON body is an object: keys to values (a string, an integer).
NoBody == <<>>
TitleBody(t) == ("title" :> StrV(t))

\* struct Task { #[serde(rename = "_id")] id: Option<String>, title: String }
\* as serde reads it from a JSON object: title must be a string, _id a string
\* when present, any other key is ignored.
TaskFromJson(body) ==
    IF /\ "title" \in DOMAIN body
       /\ body["title"].t = "str"
       /\ ("_id" \in DOMAIN body => body["_id"].t = "str")
    THEN [ok |-> TRUE, title |-> body["title"].s]
    ELSE [ok |-> FALSE, title |-> ""]

\* Mutant of NewTask: the title is stored under another key.
NewTask_WrongKey(title) == ("name" :> StrV(title))

\* doc! { "title": &task.title }
NewTask(title) == ("title" :> StrV(title))

\* The titles requests carry.
Titles == {"", "a"}

\* The bodies requests carry: a title alone, or a title with an id beside it
\* (under the key _id as a string or as a number, or under the key id).
Bodies ==
    {TitleBody(t) : t \in Titles}
    \cup {TitleBody("a") @@ ("_id" :> StrV("x")),
          TitleBody("a") @@ ("_id" :> IntV("5")),
          TitleBody("a") @@ ("id" :> IntV("5"))}

\* to_hex in upper case: the same ObjectId, written by a client.
UpperHex(oid) ==
    [i \in 1..(2 * Len(oid)) |->
        LET b == oid[(i + 1) \div 2]
        IN  Upper[(IF i % 2 = 1 THEN b \div 16 ELSE b % 16) + 1]]

\* Path segments that are no ObjectId: not hex, too short, a bad last digit.
Malformed ==
    {<<"n","o","t","-","a","n","-","i","d">>,
     SubSeq(to_hex(OidOf(1)), 1, 2 * OidBytes - 2),
     [to_hex(OidOf(1)) EXCEPT ![2 * OidBytes] = "g"]}

\* The {id} segments requests carry.
PathIds == {to_hex(o) : o \in Oids} \cup {UpperHex(OidOf(1))} \cup Malformed

\* ------------------------------------------------------------------ state

Slots == {1, 2}

VARIABLES
    coll,      \* the tasks collection: documents in natural order
    issued,    \* how many ObjectIds of the run are in use
    slots,     \* per slot: the request being handled and its response
    clock,     \* store round trips so far
    deleted    \* ObjectIds whose delete was answered 200

vars == <<coll, issued, slots, clock, deleted>>

Idle ==
    [pc |-> "idle", method |-> "", path |-> <<>>, body |-> NoBody,
     resp |-> NoResponse, outcome |-> "none", pre |-> 0, recv |-> 0, at |-> 0,
     calls |-> 0]

\* A handler suspended at its store call.
Await(method, path, body) ==
    [pc |-> "await", method |-> method, path |-> path, body |-> body,
     resp |-> NoResponse, outcome |-> "none", pre |-> 0, recv |-> clock, at |-> 0,
     calls |-> 0]

\* A request answered before any store call.
Early(method, path, body, resp) ==
    [pc |-> "done", method |-> method, path |-> path, body |-> body,
     resp |-> resp, outcome |-> "none", pre |-> 0, recv |-> clock, at |-> 0,
     calls |-> 0]

\* A request answered after its store call: outcome is how the call went, pre
\* what the call found (documents matched, or documents in the collection),
\* at its place among the store calls, calls how many the handler has made.
Finish(r, resp, outcome, pre) ==
    [r EXCEPT !.pc = "done", !.resp = resp, !.outcome = outcome, !.pre = pre,
              !.at = clock + 1, !.calls = @ + 1]

Pending(method) == Cardinality({q \in Slots : slots[q].pc = "await" /\ slots[q].method = method})
PendingAll == Cardinality({q \in Slots : slots[q].pc = "await"})

\* Room for one more store round trip within the bounds.
CanIssue == clock + PendingAll < MaxOps
CanInsert == CanIssue /\ issued + Pending("POST") < MaxOid

\* Collections the service may find at start: empty, one task, and one with
\* a task carrying an extra field, a document without title, a document whose
\* _id is a string and one whose title is a number.
InitColls ==
    {<<>>,
     <<Doc(OidOf(1), "b")>>,
     <<Doc(OidOf(1), "b") @@ ("done" :> IntV("1")),
       ("_id" :> StrV("k")) @@ ("title" :> StrV("b")),
       ("_id" :> OidV(OidOf(2))) @@ ("title" :> IntV("7"))>>,
     <<("_id" :> OidV(OidOf(1))), Doc(OidOf(2), "a")>>}

IssuedIn(c) == Cardinality({n \in 1..MaxOid : MatchSet(c, OidOf(n)) # {}})

Init ==
    /\ coll \in InitColls
    /\ issued = IssuedIn(coll)
    /\ slots = [p \in Slots |-> Idle]
    /\ clock = 0
    /\ deleted = {}

\* ------------------------------------------- handlers, up to the store call

\* add_task before its await: the Json extractor.  NoResponse: go on.
AddEntry(body) ==
    IF ~TaskFromJson(body).ok THEN JsonError ELSE NoResponse

\* update_task before its await: the Json extractor, then parse_str.
UpdateEntry(path, body) ==
    IF ~TaskFromJson(body).ok THEN JsonError
    ELSE IF ~parse_str(path).ok THEN InvalidId
    ELSE NoResponse

\* delete_task before its await: parse_str.
DeleteEntry(path) ==
    IF ~parse_str(path).ok THEN InvalidId ELSE NoResponse

\* Slot p takes a request: answered at once with resp, or suspended.
Receive(p, method, path, body, resp) ==
    /\ slots[p].pc # "await"
    /\ IF resp = NoResponse
       THEN /\ IF method = "POST" THEN CanInsert ELSE CanIssue
            /\ slots' = [slots EXCEPT ![p] = Await(method, path, body)]
       ELSE slots' = [slots EXCEPT ![p] = Early(method, path, body, resp)]
    /\ UNCHANGED <<coll, issued, clock, deleted>>

\* GET /tasks
ReceiveGet(p) == Receive(p, "GET", <<>>, NoBody, NoResponse)

\* POST /tasks
ReceiveAdd(p, body) == Receive(p, "POST", <<>>, body, AddEntry(body))

\* PUT /tasks/{id}
ReceiveUpdate(p, path, body) == Receive(p, "PUT", path, body, UpdateEntry(path, body))

\* DELETE /tasks/{id}
ReceiveDelete(p, path) == Receive(p, "DELETE", path, NoBody, DeleteEntry(path))

\* ----------------------------------------- the store call and what follows

\* How a write call can go: it succeeds; it fails and nothing was written;
\* the write was applied and the call still returns Err (the reply is lost).
WriteOutcomes == {"ok", "fail", "lost"}
Applied(out) == out \in {"ok", "lost"}

\* How the read can go: find fails, or the cursor yields the first `read`
\* documents and, when that is not all of them, an Err.
FindOutcomes(c) ==
    {[find |-> FALSE, read |-> 0]} \cup {[find |-> TRUE, read |-> k] : k \in 0..Len(c)}

\* get_tasks after find: unwrap() on the find result, then the cursor loop,
\* whose Err arm is empty, then 200 with what was collected.
GetTasksResponse(c, o) ==
    IF ~o.find THEN Panicked
    ELSE ListResponse(ProjectTasks(SubSeq(c, 1, o.read)))

ReqOid(r) == parse_str(r.path).oid
ReqTitle(r) == TaskFromJson(r.body).title

StoreFind(p, o) ==
    /\ slots[p].pc = "await" /\ slots[p].method = "GET"
    /\ slots' = [slots EXCEPT ![p] =
                   Finish(@, GetTasksResponse(coll, o),
                          IF ~o.find THEN "fail"
                          ELSE IF o.read < Len(coll) THEN "cursor" ELSE "ok",
                          Len(coll))]
    /\ clock' = clock + 1
    /\ UNCHANGED <<coll, issued, deleted>>

StoreInsert(p, out) ==
    /\ slots[p].pc = "await" /\ slots[p].method = "POST"
    /\ coll' = IF Applied(out)
               THEN InsertOne(coll, NewTask(ReqTitle(slots[p])), OidOf(issued + 1))
               ELSE coll
    /\ issued' = IF Applied(out) THEN issued + 1 ELSE issued
    /\ slots' = [slots EXCEPT ![p] = Finish(@, AddResponse(out = "ok"), out, Len(coll))]
    /\ clock' = clock + 1
    /\ UNCHANGED deleted

StoreUpdate(p, out) ==
    /\ slots[p].pc = "await" /\ slots[p].method = "PUT"
    /\ LET res == UpdateOne(coll, ReqOid(slots[p]), ReqTitle(slots[p]))
       IN  /\ coll' = IF Applied(out) THEN res.coll ELSE coll
           /\ slots' = [slots EXCEPT ![p] =
                          Finish(@, UpdateResponse(out = "ok", res.matched_count), out,
                                 Cardinality(MatchSet(coll, ReqOid(slots[p]))))]
    /\ clock' = clock + 1
    /\ UNCHANGED <<issued, deleted>>

StoreDelete(p, out) ==
    /\ slots[p].pc = "await" /\ slots[p].method = "DELETE"
    /\ LET res == DeleteOne(coll, ReqOid(slots[p]))
           resp == DeleteResponse(out = "ok", res.deleted_count)
       IN  /\ coll' = IF Applied(out) THEN res.coll ELSE coll
           /\ slots' = [slots EXCEPT ![p] =
                          Finish(@, resp, out, Cardinality(MatchSet(coll, ReqOid(slots[p]))))]
           /\ deleted' = IF resp.status = 200
                         THEN deleted \cup {ReqOid(slots[p])} ELSE deleted
    /\ clock' = clock + 1
    /\ UNCHANGED issued

\* One request at a time, with every input.
Next ==
    \/ ReceiveGet(1)
    \/ \E body \in Bodies : ReceiveAdd(1, body)
    \/ \E path \in PathIds, body \in Bodies : ReceiveUpdate(1, path, body)
    \/ \E path \in PathIds : ReceiveDelete(1, path)
    \/ \E o \in FindOutcomes(coll) : StoreFind(1, o)
    \/ \E out \in WriteOutcomes : StoreInsert(1, out)
    \/ \E out \in WriteOutcomes : StoreUpdate(1, out)
    \/ \E out \in WriteOutcomes : StoreDelete(1, out)

Spec == Init /\ [][Next]_vars

\* Requests in every slot, interleaved at their store calls, with well-formed
\* ids and bodies.
ConcPaths == {to_hex(OidOf(1)), to_hex(OidOf(2))}
ConcBodies == {TitleBody("a")}

NextConc ==
    \/ \E p \in Slots : ReceiveGet(p)
    \/ \E p \in Slots, body \in ConcBodies : ReceiveAdd(p, body)
    \/ \E p \in Slots, path \in ConcPaths, body \in ConcBodies : ReceiveUpdate(p, path, body)
    \/ \E p \in Slots, path \in ConcPaths : ReceiveDelete(p, path)
    \/ \E p \in Slots : \E o \in FindOutcomes(coll) : StoreFind(p, o)
    \/ \E p \in Slots, out \in WriteOutcomes : StoreInsert(p, out)
    \/ \E p \in Slots, out \in WriteOutcomes : StoreUpdate(p, out)
    \/ \E p \in Slots, out \in WriteOutcomes : StoreDelete(p, out)

SpecConc == Init /\ [][NextConc]_vars

\* ================================================================ claims

HexDigits ==
    {"0","1","2","3","4","5","6","7","8","9",
     "a","b","c","d","e","f","A","B","C","D","E","F"}

\* A well-formed identifier: 24 hexadecimal digits.
WellFormedId(s) == Len(s) = 24 /\ \A i \in 1..Len(s) : s[i] \in HexDigits

\* A body of the shape {title: string}.
ShapedBody(b) == DOMAIN b = {"title"} /\ b["title"].t = "str"

\* Slot p's request is answered in this step.
Completed(p) == slots'[p] # slots[p] /\ slots'[p].pc = "done"
\* ... by the step that performs its store call.
Stored(p) == slots[p].pc = "await" /\ slots'[p].pc = "done"

\* What a list answers on collection c when the store does not fail.
ListOf(c) == GetTasksResponse(c, [find |-> TRUE, read |-> Len(c)]).json

Exists(c, o) == \E i \in 1..Len(c) : "_id" \in DOMAIN c[i] /\ c[i]["_id"] = OidV(o)

\* The documents a list shows: a native-id _id and a string title.
Conforming(c) ==
    {i \in 1..Len(c) :
        /\ "_id" \in DOMAIN c[i] /\ c[i]["_id"].t = "oid"
        /\ "title" \in DOMAIN c[i] /\ c[i]["title"].t = "str"}

\* ---- C1
\* C1: a PUT /tasks/{id} with a body {title} and a well-formed id is answered
\* by its store call and by nothing else, with exactly one of 200, 404, 500:
\* 200 iff the call succeeded and a document with that id existed when it was
\* applied (its title is then the request's), 404 iff the call succeeded and
\* no document matched, 500 iff the call failed.
C1_UpdateOutcomes ==
    [][\A p \in Slots :
         (/\ Completed(p)
          /\ slots'[p].method = "PUT"
          /\ WellFormedId(slots'[p].path)
          /\ ShapedBody(slots'[p].body))
         => LET r == slots'[p]
                st == r.resp.status
                ok == r.outcome = "ok"
                existed == Exists(coll, parse_str(r.path).oid)
            IN  /\ Stored(p)
                /\ st \in {200, 404, 500}
                /\ (st = 200) <=> (ok /\ existed)
                /\ (st = 404) <=> (ok /\ ~existed)
                /\ (st = 500) <=> ~ok
                /\ st = 200 =>
                     \E i \in 1..Len(coll') :
                        /\ coll'[i]["_id"] = OidV(parse_str(r.path).oid)
                        /\ coll'[i]["title"] = r.body["title"]
    ]_vars

\* A PUT written with upper-case digits found its document and was answered 200.
C1_Witness ==
    \E p \in Slots :
        /\ slots[p].pc = "done" /\ slots[p].method = "PUT"
        /\ slots[p].path = UpperHex(OidOf(1))
        /\ ShapedBody(slots[p].body)
        /\ slots[p].resp.status = 200 /\ slots[p].outcome = "ok" /\ slots[p].pre = 1

\* ---- C2
\* C2: a PUT or DELETE whose id is not well-formed is answered at once with
\* 400 and a plain-text body; no store call is issued and the collection, and
\* so the result of a list, is the same before and after.
C2_BadIdRejected ==
    [][\A p \in Slots :
         (/\ slots'[p] # slots[p]
          /\ slots[p].pc # "await"
          /\ slots'[p].method \in {"PUT", "DELETE"}
          /\ ~WellFormedId(slots'[p].path))
         => /\ slots'[p].pc = "done"
            /\ slots'[p].resp.status = 400
            /\ slots'[p].resp.kind = "text"
            /\ slots'[p].at = 0 /\ clock' = clock
            /\ coll' = coll
            /\ ListOf(coll') = ListOf(coll)
    ]_vars

\* A DELETE with a malformed id was answered 400 while the collection held tasks.
C2_Witness ==
    \E p \in Slots :
        /\ slots[p].pc = "done" /\ slots[p].method = "DELETE"
        /\ ~WellFormedId(slots[p].path)
        /\ slots[p].resp = InvalidId
        /\ Len(coll) > 0

\* ---- C3
\* C3: a list whose store access fails, at the find or while the cursor is
\* read, is answered 500 with an empty body: never a panic, never a 200.
C3_ListFailureIs500 ==
    \A p \in Slots :
        (/\ slots[p].pc = "done" /\ slots[p].method = "GET"
         /\ slots[p].outcome \in {"fail", "cursor"})
        => /\ slots[p].resp.status = 500
           /\ slots[p].resp.kind = "empty"

\* ---- C4
\* The elements of list L are, one for one, the conforming documents of c:
\* each with the fields idKey (the document's id in hex) and title.
ListsExactly(L, c, idKey) ==
    /\ Len(L) = Cardinality(Conforming(c))
    /\ \A j \in 1..Len(L) :
         /\ DOMAIN L[j] = {idKey, "title"}
         /\ WellFormedId(L[j][idKey])
         /\ \E i \in Conforming(c) :
              /\ parse_str(L[j][idKey]).oid = c[i]["_id"].b
              /\ L[j]["title"] = c[i]["title"].s
    /\ \A i \in Conforming(c) :
         Cardinality({j \in 1..Len(L) :
                        /\ parse_str(L[j][idKey]).oid = c[i]["_id"].b
                        /\ L[j]["title"] = c[i]["title"].s}) = 1

C5_CreateRoundTrip ==
    [][\A p \in Slots :
         (Stored(p) /\ slots'[p].method = "POST" /\ slots'[p].outcome = "ok")
         => LET T == slots'[p].body["title"].s
                before == ListOf(coll)
                after == ListOf(coll')
            IN  /\ slots'[p].resp.status = 201
                /\ slots'[p].resp.kind = "empty"
                /\ \E j \in 1..Len(after) :
                     /\ after[j]["title"] = T
                     /\ WellFormedId(after[j]["_id"])
                     /\ \A k \in 1..Len(before) : before[k]["_id"] # after[j]["_id"]
    ]_vars

\* A task with the empty title was created (201) and is in the collection.
C5_Witness ==
    \E p \in Slots :
        /\ slots[p].pc = "done" /\ slots[p].method = "POST"
        /\ slots[p].resp.status = 201
        /\ slots[p].body["title"].s = ""
        /\ \E j \in 1..Len(ListOf(coll)) : ListOf(coll)[j]["title"] = ""
        /\ Len(coll) >= 2

\* ---- C6
\* The entries of list L whose id is not that of ObjectId o.
Others(L, o) == SelectSeq(L, LAMBDA e : parse_str(e["_id"]).oid # o)

\* C6: a PUT with title T2 answered 200 changes only the title of the
\* document with that id: the documents, their order and ids are the same,
\* every other document and every other field of the updated one are as
\* before; a list then shows T2 for that id and every other entry as before.
C6_UpdateFrame ==
    [][\A p \in Slots :
         (Stored(p) /\ slots'[p].method = "PUT" /\ slots'[p].resp.status = 200)
         => LET o == parse_str(slots'[p].path).oid
                T2 == slots'[p].body["title"].s
            IN  /\ Len(coll') = Len(coll)
                /\ \A i \in 1..Len(coll) :
                     /\ coll'[i]["_id"] = coll[i]["_id"]
                     /\ IF coll[i]["_id"] = OidV(o)
                        THEN /\ DOMAIN coll'[i] = DOMAIN coll[i] \cup {"title"}
                             /\ coll'[i]["title"] = StrV(T2)
                             /\ \A k \in DOMAIN coll[i] \ {"title"} :
                                   coll'[i][k] = coll[i][k]
                        ELSE coll'[i] = coll[i]
                /\ \E j \in 1..Len(ListOf(coll')) :
                     /\ parse_str(ListOf(coll')[j]["_id"]).oid = o
                     /\ ListOf(coll')[j]["title"] = T2
                /\ Others(ListOf(coll'), o) = Others(ListOf(coll), o)
    ]_vars

\* A PUT was answered 200 on a task that carries another field, among other
\* documents: the task has the new title and still the other field.
C6_Witness ==
    \E p \in Slots :
        /\ slots[p].pc = "done" /\ slots[p].method = "PUT"
        /\ slots[p].resp.status = 200
        /\ Len(coll) >= 2
        /\ \E i \in 1..Len(coll) :
             /\ coll[i]["_id"] = OidV(parse_str(slots[p].path).oid)
             /\ "done" \in DOMAIN coll[i]
             /\ coll[i]["title"] = StrV("a")

\* ---- C7
\* Collection c without the document whose _id is ObjectId o.
Without(c, o) == SelectSeq(c, LAMBDA d : ~("_id" \in DOMAIN d /\ d["_id"] = OidV(o)))

\* A DELETE, or a PUT with a body {title}, on a well-formed id.
Targets(r) ==
    /\ r.method = "DELETE" \/ (r.method = "PUT" /\ ShapedBody(r.body))
    /\ WellFormedId(r.path)

\* C7 as stated: a DELETE on an existing id is answered 200 and removes
\* exactly that document; from then on no list shows that id and every DELETE
\* or PUT of it is answered 404, whatever requests come in between.
C7_DeleteFinality_Original ==
    [][/\ \A p \in Slots :
            Completed(p) =>
              LET r == slots'[p]
                  o == parse_str(r.path).oid
              IN  /\ (r.method = "DELETE" /\ WellFormedId(r.path) /\ Exists(coll, o))
                     => /\ r.resp.status = 200
                        /\ coll' = Without(coll, o)
                        /\ o \in deleted'
                  /\ (Targets(r) /\ o \in deleted) => r.resp.status = 404
                  /\ (r.method = "GET" /\ r.resp.status = 200)
                     => \A j \in 1..Len(r.resp.json) :
                           parse_str(r.resp.json[j]["_id"]).oid \notin deleted
       /\ deleted \subseteq deleted'
       /\ \A o \in deleted' : ~Exists(coll', o)
    ]_vars

\* C7 as amended: the same, except that a DELETE or PUT whose store call
\* fails is answered 500; a DELETE so answered leaves the collection as it
\* was or without that document.
C7_DeleteFinality ==
    [][/\ \A p \in Slots :
            Completed(p) =>
              LET r == slots'[p]
                  o == parse_str(r.path).oid
                  failed == r.outcome \in {"fail", "lost"} /\ r.resp.status = 500
              IN  /\ (r.method = "DELETE" /\ WellFormedId(r.path) /\ Exists(coll, o))
                     => /\ Stored(p)
                        /\ \/ /\ r.resp.status = 200
                              /\ coll' = Without(coll, o)
                              /\ o \in deleted'
                           \/ /\ failed
                              /\ coll' \in {coll, Without(coll, o)}
                  /\ (Targets(r) /\ o \in deleted)
                     => Stored(p) /\ (r.resp.status = 404 \/ failed)
                  /\ (r.method = "GET" /\ r.resp.status = 200)
                     => \A j \in 1..Len(r.resp.json) :
                           parse_str(r.resp.json[j]["_id"]).oid \notin deleted
       /\ deleted \subseteq deleted'
       /\ \A o \in deleted' : ~Exists(coll', o)
    ]_vars

\* A task was deleted (200), another request went to the store, and a
\* further DELETE of the same id was answered 404.
C7_Witness ==
    \E p \in Slots :
        /\ slots[p].pc = "done" /\ slots[p].method = "DELETE"
        /\ parse_str(slots[p].path).oid \in deleted
        /\ slots[p].resp.status = 404
        /\ slots[p].at >= 3
        /\ Len(coll) >= 1

\* ---- C8
\* C8 as stated: a PUT or DELETE on a well-formed id that matches no document
\* is answered 404 and leaves the collection, and so a list, unchanged.
C8_NotFound_Original ==
    [][\A p \in Slots :
         (/\ Completed(p) /\ Targets(slots'[p])
          /\ ~Exists(coll, parse_str(slots'[p].path).oid))
         => /\ slots'[p].resp.status = 404
            /\ coll' = coll
            /\ ListOf(coll') = ListOf(coll)
    ]_vars

\* C8 as amended: the same, except that the answer is 500 when the store
\* call fails; the collection is unchanged in both cases.
C8_NotFound ==
    [][\A p \in Slots :
         (/\ Completed(p) /\ Targets(slots'[p])
          /\ ~Exists(coll, parse_str(slots'[p].path).oid))
         => /\ Stored(p)
            /\ \/ slots'[p].resp.status = 404
               \/ slots'[p].outcome \in {"fail", "lost"} /\ slots'[p].resp.status = 500
            /\ slots'[p].outcome = "ok" => slots'[p].resp.status = 404
            /\ coll' = coll
            /\ ListOf(coll') = ListOf(coll)
    ]_vars

\* A PUT on a well-formed id that no document has was answered 404 while the
\* collection held tasks.
C8_Witness ==
    \E p \in Slots :
        /\ slots[p].pc = "done" /\ slots[p].method = "PUT"
        /\ Targets(slots[p])
        /\ slots[p].pre = 0 /\ slots[p].outcome = "ok"
        /\ slots[p].resp.status = 404
        /\ Len(ListOf(coll)) >= 1

\* ---- C9
Ids(c) == [i \in 1..Len(c) |-> c[i]["_id"]]

\* C9: the persisted tasks have pairwise distinct ids; a create whose body
\* has a string title, with or without an id beside it, goes to the store
\* and, when the store accepts it, is answered 201 and adds exactly one
\* document, whose id is the store's and not the body's; no update changes
\* the id of a document.
C9_Identifiers ==
    [][/\ \A i, j \in 1..Len(coll') : Ids(coll')[i] = Ids(coll')[j] => i = j
       /\ \A p \in Slots :
            (/\ Completed(p) /\ slots'[p].method = "POST"
             /\ "title" \in DOMAIN slots'[p].body
             /\ slots'[p].body["title"].t = "str")
            => /\ Stored(p)
               /\ slots'[p].outcome = "ok"
                  => /\ slots'[p].resp.status = 201
                     /\ Len(coll') = Len(coll) + 1
                     /\ SubSeq(coll', 1, Len(coll)) = coll
                     /\ coll'[Len(coll')]["_id"].t = "oid"
                     /\ ~Exists(coll, coll'[Len(coll')]["_id"].b)
                     /\ "_id" \in DOMAIN slots'[p].body
                        => coll'[Len(coll')]["_id"] # slots'[p].body["_id"]
       /\ \A p \in Slots :
            (Stored(p) /\ slots'[p].method = "PUT") => Ids(coll') = Ids(coll)
    ]_vars

\* ---- C10
\* The requests of slots p and q were in flight at the same time.
Racing(p, q) ==
    /\ p # q
    /\ slots[p].pc = "done" /\ slots[q].pc = "done"
    /\ slots[p].at > 0 /\ slots[q].at > 0
    /\ slots[p].recv < slots[q].at /\ slots[q].recv < slots[p].at

SameId(p, q) == parse_str(slots[p].path).oid = parse_str(slots[q].path).oid

\* C10: an update or delete handler makes at most one store call, none when
\* it answers 400.  Of two racing DELETEs of one id whose store calls both
\* succeed, at most one is answered 200; when the document existed at the
\* first of the two calls, that one is answered 200 and the other 404.  A PUT
\* racing with a DELETE of the same id that removed the document is answered
\* 200 only if its store call came before the delete's.
C10_Linearizable ==
    /\ \A p \in Slots :
         /\ slots[p].calls <= 1
         /\ (slots[p].pc = "done" /\ slots[p].method \in {"PUT", "DELETE"})
            => (slots[p].calls = 1 <=> slots[p].resp.status # 400)
    /\ \A p, q \in Slots :
         (/\ Racing(p, q)
          /\ slots[p].method = "DELETE" /\ slots[q].method = "DELETE"
          /\ slots[p].outcome = "ok" /\ slots[q].outcome = "ok"
          /\ slots[p].at < slots[q].at
          /\ SameId(p, q))
         => /\ ~(slots[p].resp.status = 200 /\ slots[q].resp.status = 200)
            /\ slots[p].pre = 1
               => slots[p].resp.status = 200 /\ slots[q].resp.status = 404
    /\ \A p, q \in Slots :
         (/\ Racing(p, q)
          /\ slots[p].method = "PUT" /\ slots[q].method = "DELETE"
          /\ Applied(slots[q].outcome) /\ slots[q].pre = 1
          /\ slots[p].resp.status = 200
          /\ SameId(p, q))
         => slots[p].at < slots[q].at

\* Two DELETEs of the same existing id raced: one was answered 200, the
\* other 404.
C10_Witness ==
    \E p, q \in Slots :
        /\ Racing(p, q) /\ SameId(p, q)
        /\ slots[p].method = "DELETE" /\ slots[q].method = "DELETE"
        /\ slots[p].recv = slots[q].recv
        /\ slots[p].resp.status = 200 /\ slots[q].resp.status = 404

====
